---- MODULE Spec2Model ----
\* SX126x SPI command buffers: the command codec of src/src/commands.rs and
\* the register types of src/src/registers.rs, as a state machine over one
\* caller-owned command value and one bitfield or register value held by the
\* caller, and the statically allocated commands whose transfer descriptors
\* pass through the transfer queue of src/src/lib.rs.
EXTENDS Integers, Sequences, FiniteSets, TLC

VARIABLES cmd, ret, overflow_checks, bf, statics, queue, enqueued, dequeued

\* the statically allocated commands, the transfer queue, and the
\* descriptors passed to enqueue and returned by dequeue so far, in call order
transport == <<statics, queue, enqueued, dequeued>>

vars == <<cmd, ret, overflow_checks, bf, statics, queue, enqueued, dequeued>>

\* ---------------------------------------------------------------- bounds

\* Largest capacity N of WriteBuffer<N> / ReadBuffer<N> that is explored.
MaxN == 5

\* ------------------------------------------------------- integer helpers

Pow2(k) == 2 ^ k

\* `x as u8`
AsU8(x) == x % 256

\* `x as u16`
AsU16(x) == x % 65536

\* `x >> k` on an unsigned value
Shr(x, k) == x \div Pow2(k)

\* bit i of x
Bit(x, i) == Shr(x, i) % 2

\* A u32 is kept as its two 16-bit halves.
U32(hi, lo) == [hi |-> hi, lo |-> lo]

\* mutant: a value that does not fit a byte saturates instead of wrapping
U32ShrAsU8_saturating(x, k) ==
    LET shifted == IF k >= 16 THEN Shr(x.hi, k - 16)
                   ELSE Shr((x.hi % 256) * 65536 + x.lo, k)
    IN  IF shifted > 255 \/ (k < 16 /\ x.hi > 255) THEN 255 ELSE shifted

\* `(x >> k) as u8` on a u32, for k in 0..24
U32ShrAsU8(x, k) ==
    IF k >= 16 THEN AsU8(Shr(x.hi, k - 16))
    ELSE AsU8(Shr((x.hi % 256) * 65536 + x.lo, k))

\* `[0; n]`
Zeros(n) == [i \in 1..n |-> 0]

\* buf[i] with the source's 0-based index
At(buf, i) == buf[i + 1]

\* u16::MAX
U16Max == Pow2(16) - 1

\* ------------------------------------------------------------ bitfields
\* A bitfield type is its declared field list (name, width), in declaration
\* order, with its integer width and its bit order.  "__" is padding.

SleepConfigLayout ==
    [width |-> 8, order |-> "Msb",
     fields |-> << <<"__", 5>>, <<"warm_start", 1>>, <<"__", 2>> >>]

IrqLayout ==
    [width |-> 16, order |-> "Lsb",
     fields |-> << <<"tx_done", 1>>, <<"rx_done", 1>>,
                   <<"preamble_detected", 1>>, <<"sync_word_valid", 1>>,
                   <<"header_valid", 1>>, <<"header_err", 1>>,
                   <<"crc_err", 1>>, <<"cad_done", 1>>,
                   <<"cad_detected", 1>>, <<"timeout", 1>>,
                   <<"__", 4>>, <<"lr_fhss_hop", 1>>, <<"__", 1>> >>]

OpErrorLayout ==
    [width |-> 16, order |-> "Lsb",
     fields |-> << <<"rc64k_calib_err", 1>>, <<"rc13m_calib_err", 1>>,
                   <<"pll_calib_err", 1>>, <<"adc_calib_err", 1>>,
                   <<"img_calib_err", 1>>, <<"xosc_start_err", 1>>,
                   <<"pll_lock_err", 1>>, <<"__", 1>>,
                   <<"pa_ramp_err", 1>>, <<"__", 7>> >>]

\* a value of no bitfield type has no fields
NoLayout == [width |-> 0, order |-> "Lsb", fields |-> <<>>]

Layout(type) ==
    CASE type = "SleepConfig" -> SleepConfigLayout
      [] type = "Irq" -> IrqLayout
      [] type = "OpError" -> OpErrorLayout
      [] OTHER -> NoLayout

BitfieldTypes == {"SleepConfig", "Irq", "OpError"}

RECURSIVE WidthBefore(_, _)
\* sum of the widths of the fields declared before field number k
WidthBefore(fields, k) ==
    IF k <= 1 THEN 0 ELSE fields[k - 1][2] + WidthBefore(fields, k - 1)

\* bit offset of field number k: counted from bit 0 for Lsb order, from the
\* top of the integer for Msb order
FieldOffsetLsbFirst(lay, k) == WidthBefore(lay.fields, k)

\* mutant: the declared order is ignored
FieldOffsetMsbFirst_as_lsb(lay, k) == WidthBefore(lay.fields, k)

FieldOffsetMsbFirst(lay, k) ==
    lay.width - WidthBefore(lay.fields, k) - lay.fields[k][2]

FieldOffset(lay, k) ==
    IF lay.order = "Msb" THEN FieldOffsetMsbFirst(lay, k)
    ELSE FieldOffsetLsbFirst(lay, k)

\* the numbers of the named (non-padding) fields
NamedIdx(lay) == {k \in 1..Len(lay.fields) : lay.fields[k][1] # "__"}

FieldNames(type) == {Layout(type).fields[k][1] : k \in NamedIdx(Layout(type))}

FieldIdx(lay, name) == CHOOSE k \in NamedIdx(lay) : lay.fields[k][1] = name

\* T::new(): all bits zero
Bitfield_new(type) == 0

\* T::from_bits(bits): the raw integer is kept as it is
Bitfield_from_bits(type, bits) == bits

\* x.into_bits()
Bitfield_into_bits(type, x) == x

\* x.<name>(): the 1-bit field as a bool
Bitfield_get(type, x, name) ==
    LET lay == Layout(type)
    IN  Bit(x, FieldOffset(lay, FieldIdx(lay, name))) = 1

\* a == b as #[derive(PartialEq)] on the bitfield struct compares: the
\* whole integer
Bitfield_eq(type, a, b) == a = b

\* mutant: the bit is or-ed in and never cleared
Bitfield_with_or_only(type, x, name, v) ==
    LET lay == Layout(type)
        off == FieldOffset(lay, FieldIdx(lay, name))
    IN  IF v /\ Bit(x, off) = 0 THEN x + Pow2(off) ELSE x

\* x.with_<name>(v): the field's bit replaced, every other bit kept
Bitfield_with(type, x, name, v) ==
    LET lay == Layout(type)
        off == FieldOffset(lay, FieldIdx(lay, name))
        cleared == x - Bit(x, off) * Pow2(off)
    IN  cleared + (IF v THEN Pow2(off) ELSE 0)

\* the set of bit positions no named field occupies
ReservedBits(type) ==
    LET lay == Layout(type)
    IN  {b \in 0..(lay.width - 1) :
            \A k \in NamedIdx(lay) : b # FieldOffset(lay, k)}

\* ------------------------------------------------------------ registers

RegisterTypes == {"LoraSyncWordMsb", "LoraSyncWordLsb"}

\* R::ADDRESS
Register_ADDRESS(R) ==
    CASE R = "LoraSyncWordMsb" -> 1856     \* 0x0740
      [] R = "LoraSyncWordLsb" -> 1857     \* 0x0741

\* register.bits(): the wrapped byte
Register_bits(R, v) == v

\* R::from_bits(bits): the byte wrapped
Register_from_bits(R, bits) == bits

\* ------------------------------------------------------- command kinds

FixedKinds ==
    {"SetSleep", "SetStandby", "SetTx", "SetRx", "SetPaConfig",
     "WriteRegister", "ReadRegister", "SetDioIrqParams", "GetIrqStatus",
     "ClearIrqStatus", "SetDio2AsRfSwitchCtrl", "SetDio3AsTcxoCtrl",
     "SetRfFrequency", "SetPacketType", "GetPacketType", "SetTxParams",
     "SetModulationParamsLora", "SetPacketParams", "SetBufferBaseAddress",
     "SetLoraSymbNumTimeout", "GetStatus", "GetRxBufferStatus",
     "GetPacketStatusLora", "GetStatsLora", "ResetStats", "GetDeviceErrors",
     "ClearDeviceErrors"}

VariableKinds == {"WriteBuffer", "ReadBuffer"}

Kinds == FixedKinds \cup VariableKinds

\* <K as Command<N>>::OPCODE
OPCODE(kind) ==
    CASE kind = "SetSleep" -> 132                  \* 0x84
      [] kind = "SetStandby" -> 128                \* 0x80
      [] kind = "SetTx" -> 131                     \* 0x83
      [] kind = "SetRx" -> 130                     \* 0x82
      [] kind = "SetPaConfig" -> 149               \* 0x95
      [] kind = "WriteRegister" -> 13              \* 0x0D
      [] kind = "ReadRegister" -> 29               \* 0x1D
      [] kind = "WriteBuffer" -> 14                \* 0x0E
      [] kind = "ReadBuffer" -> 30                 \* 0x1E
      [] kind = "SetDioIrqParams" -> 8             \* 0x08
      [] kind = "GetIrqStatus" -> 18               \* 0x12
      [] kind = "ClearIrqStatus" -> 2              \* 0x02
      [] kind = "SetDio2AsRfSwitchCtrl" -> 157     \* 0x9D
      [] kind = "SetDio3AsTcxoCtrl" -> 151         \* 0x97
      [] kind = "SetRfFrequency" -> 134            \* 0x86
      [] kind = "SetPacketType" -> 138             \* 0x8A
      [] kind = "GetPacketType" -> 17              \* 0x11
      [] kind = "SetTxParams" -> 142               \* 0x8E
      [] kind = "SetModulationParamsLora" -> 139   \* 0x8B
      [] kind = "SetPacketParams" -> 140           \* 0x8C
      [] kind = "SetBufferBaseAddress" -> 143      \* 0x8F
      [] kind = "SetLoraSymbNumTimeout" -> 160     \* 0xA0
      [] kind = "GetStatus" -> 192                 \* 0xC0
      [] kind = "GetRxBufferStatus" -> 19          \* 0x13
      [] kind = "GetPacketStatusLora" -> 20        \* 0x14
      [] kind = "GetStatsLora" -> 16               \* 0x10
      [] kind = "ResetStats" -> 0                  \* 0x00
      [] kind = "GetDeviceErrors" -> 23            \* 0x17
      [] kind = "ClearDeviceErrors" -> 7           \* 0x07

\* mutant: the inherent constant copied from GetIrqStatus
SetDioIrqParams_OPCODE_copied == OPCODE("GetIrqStatus")

\* SetDioIrqParams::OPCODE, the inherent constant that `Self::OPCODE` names
\* inside SetDioIrqParams::new
SetDioIrqParams_OPCODE == 8

\* `b as u8` of a bool
BoolAsU8(b) == IF b THEN 1 ELSE 0

\* a fixed-size command value: tx_buf as built, rx_buf all zero
Fixed(kind, tx) == [kind |-> kind, tx_buf |-> tx, rx_buf |-> Zeros(Len(tx))]

\* ------------------------------------------------- enumerations (codes)

StdbyConfig == {0, 1}
TcxoVoltage == 0..7
PacketType == 0..3
RampTime == 0..7
Sf == 0..15
Bw == {0, 8, 1, 9, 2, 10, 3, 4, 5, 6, 11, 12, 13, 14, 15}
Cr == 0..7
HeaderType == {0, 1}
InvertIq == {0, 1}

\* --------------------------------------------------------- constructors

\* mutant: the warm_start flag is sent as a number, not in its bit position
SetSleep_new_flag_as_u8(sleep_config) ==
    Fixed("SetSleep",
          <<OPCODE("SetSleep"),
            BoolAsU8(Bitfield_get("SleepConfig", sleep_config, "warm_start"))>>)

SetSleep_new(sleep_config) ==
    Fixed("SetSleep",
          <<OPCODE("SetSleep"), Bitfield_into_bits("SleepConfig", sleep_config)>>)

SetStandby_new(stdby_config) ==
    Fixed("SetStandby", <<OPCODE("SetStandby"), stdby_config>>)

SetTx_new(timeout) ==
    Fixed("SetTx",
          <<OPCODE("SetTx"), U32ShrAsU8(timeout, 16), U32ShrAsU8(timeout, 8),
            U32ShrAsU8(timeout, 0)>>)

SetRx_new(timeout) ==
    Fixed("SetRx",
          <<OPCODE("SetRx"), U32ShrAsU8(timeout, 16), U32ShrAsU8(timeout, 8),
            U32ShrAsU8(timeout, 0)>>)

SetPaConfig_new(pa_duty_cycle, hp_max) ==
    Fixed("SetPaConfig", <<OPCODE("SetPaConfig"), pa_duty_cycle, hp_max, 0, 1>>)

\* mutant: the address low byte is sent first
WriteRegister_new_low_first(R, v) ==
    Fixed("WriteRegister",
          <<OPCODE("WriteRegister"), AsU8(Register_ADDRESS(R)),
            AsU8(Shr(Register_ADDRESS(R), 8)), Register_bits(R, v)>>)

WriteRegister_new(R, v) ==
    Fixed("WriteRegister",
          <<OPCODE("WriteRegister"), AsU8(Shr(Register_ADDRESS(R), 8)),
            AsU8(Register_ADDRESS(R)), Register_bits(R, v)>>)

ReadRegister_new(R) ==
    [kind |-> "ReadRegister",
     tx_buf |-> <<OPCODE("ReadRegister"), AsU8(Shr(Register_ADDRESS(R), 8)),
                  AsU8(Register_ADDRESS(R)), 0, 0>>,
     rx_buf |-> Zeros(5),
     register |-> R]

SetDioIrqParams_new(irq_mask, dio1_mask, dio2_mask, dio3_mask) ==
    Fixed("SetDioIrqParams",
          <<SetDioIrqParams_OPCODE,
            AsU8(Shr(Bitfield_into_bits("Irq", irq_mask), 8)),
            AsU8(Bitfield_into_bits("Irq", irq_mask)),
            AsU8(Shr(Bitfield_into_bits("Irq", dio1_mask), 8)),
            AsU8(Bitfield_into_bits("Irq", dio1_mask)),
            AsU8(Shr(Bitfield_into_bits("Irq", dio2_mask), 8)),
            AsU8(Bitfield_into_bits("Irq", dio2_mask)),
            AsU8(Shr(Bitfield_into_bits("Irq", dio3_mask), 8)),
            AsU8(Bitfield_into_bits("Irq", dio3_mask))>>)

GetIrqStatus_new == Fixed("GetIrqStatus", <<OPCODE("GetIrqStatus"), 0, 0, 0>>)

ClearIrqStatus_new(clear_irq_param) ==
    Fixed("ClearIrqStatus",
          <<OPCODE("ClearIrqStatus"),
            AsU8(Shr(Bitfield_into_bits("Irq", clear_irq_param), 8)),
            AsU8(Bitfield_into_bits("Irq", clear_irq_param))>>)

SetDio2AsRfSwitchCtrl_new(enable) ==
    Fixed("SetDio2AsRfSwitchCtrl",
          <<OPCODE("SetDio2AsRfSwitchCtrl"), BoolAsU8(enable)>>)

SetDio3AsTcxoCtrl_new(tcxo_voltage, delay) ==
    Fixed("SetDio3AsTcxoCtrl",
          <<OPCODE("SetDio3AsTcxoCtrl"), tcxo_voltage, U32ShrAsU8(delay, 16),
            U32ShrAsU8(delay, 8), U32ShrAsU8(delay, 0)>>)

SetRfFrequency_new(rf_freq) ==
    Fixed("SetRfFrequency",
          <<OPCODE("SetRfFrequency"), U32ShrAsU8(rf_freq, 24),
            U32ShrAsU8(rf_freq, 16), U32ShrAsU8(rf_freq, 8),
            U32ShrAsU8(rf_freq, 0)>>)

SetPacketType_new(packet_type) ==
    Fixed("SetPacketType", <<OPCODE("SetPacketType"), packet_type>>)

GetPacketType_new == Fixed("GetPacketType", <<OPCODE("GetPacketType"), 0, 0>>)

SetTxParams_new(power, ramp_time) ==
    Fixed("SetTxParams", <<OPCODE("SetTxParams"), power, ramp_time>>)

SetModulationParamsLora_new(sf, bw, cr, low_data_rate_optimize) ==
    Fixed("SetModulationParamsLora",
          <<OPCODE("SetModulationParamsLora"), sf, bw, cr,
            BoolAsU8(low_data_rate_optimize)>>)

SetPacketParams_new(preamble_length, header_type, payload_length, crc_type, invert_iq) ==
    Fixed("SetPacketParams",
          <<OPCODE("SetPacketParams"), AsU8(Shr(preamble_length, 8) % 256),
            AsU8(preamble_length % 256), header_type, AsU8(payload_length),
            BoolAsU8(crc_type), invert_iq>>)

SetBufferBaseAddress_new(tx_base_address, rx_base_address) ==
    Fixed("SetBufferBaseAddress",
          <<OPCODE("SetBufferBaseAddress"), tx_base_address, rx_base_address>>)

SetLoraSymbNumTimeout_new(symb_num) ==
    Fixed("SetLoraSymbNumTimeout", <<OPCODE("SetLoraSymbNumTimeout"), symb_num>>)

GetStatus_new == Fixed("GetStatus", <<OPCODE("GetStatus"), 0>>)

GetRxBufferStatus_new ==
    Fixed("GetRxBufferStatus", <<OPCODE("GetRxBufferStatus"), 0, 0, 0>>)

GetPacketStatusLora_new ==
    Fixed("GetPacketStatusLora", <<OPCODE("GetPacketStatusLora"), 0, 0, 0, 0>>)

\* mutant: one placeholder byte too few
GetStatsLora_new_short ==
    Fixed("GetStatsLora", <<OPCODE("GetStatsLora"), 0, 0, 0, 0, 0, 0>>)

GetStatsLora_new ==
    Fixed("GetStatsLora", <<OPCODE("GetStatsLora"), 0, 0, 0, 0, 0, 0, 0>>)

ResetStats_new == Fixed("ResetStats", <<OPCODE("ResetStats"), 0, 0, 0, 0, 0, 0>>)

GetDeviceErrors_new ==
    Fixed("GetDeviceErrors", <<OPCODE("GetDeviceErrors"), 0, 0, 0>>)

ClearDeviceErrors_new ==
    Fixed("ClearDeviceErrors", <<OPCODE("ClearDeviceErrors"), 0, 0>>)

\* ------------------------------------------- variable-length commands

\* The result of a call: ok = FALSE is a panic (no value is returned).
Returned(v) == [ok |-> TRUE, val |-> v]
Panicked == [ok |-> FALSE, val |-> 0]

\* `a - b` on u16: with overflow checks on (debug profile) a difference
\* below zero panics, with them off (release profile) it wraps
SubU16(a, b, checks) ==
    IF a >= b THEN Returned(a - b)
    ELSE IF checks THEN Panicked
    ELSE Returned(a - b + 65536)

\* mutant: the copy loop stops one byte early
WriteBuffer_new_short_copy(N, offset, data, checks) ==
    LET data_length == SubU16(AsU16(N), 2, checks)
    IN  IF N < 2 \/ ~data_length.ok THEN Panicked
        ELSE Returned(
                 [kind |-> "WriteBuffer",
                  tx_buf |-> [j \in 1..N |->
                                 IF j = 1 THEN OPCODE("WriteBuffer")
                                 ELSE IF j = 2 THEN offset
                                 ELSE IF j = N THEN 0
                                 ELSE data[j - 2]],
                  rx_buf |-> Zeros(N),
                  data_length |-> data_length.val])

\* WriteBuffer::<N>::new(offset, data), data of length N - 2: the loop
\* copies data[i] to tx_buf[i + 2]; data_length is `N as u16 - 2`, a u16
\* subtraction that overflows when N mod 2^16 < 2.  There is no
\* WriteBuffer<0> or WriteBuffer<1>: the parameter type [u8; N - 2] does
\* not exist, so no value is built.
WriteBuffer_new(N, offset, data, checks) ==
    LET data_length == SubU16(AsU16(N), 2, checks)
    IN  IF N < 2 \/ ~data_length.ok THEN Panicked
        ELSE Returned(
                 [kind |-> "WriteBuffer",
                  tx_buf |-> [j \in 1..N |->
                                 IF j = 1 THEN OPCODE("WriteBuffer")
                                 ELSE IF j = 2 THEN offset
                                 ELSE data[j - 2]],
                  rx_buf |-> Zeros(N),
                  data_length |-> data_length.val])

\* ReadBuffer::<N>::new(offset): tx_buf[0] and tx_buf[1] are stored first,
\* an index out of bounds (a panic in every profile) when N < 2;
\* data_length is `N as u16 - 3`, a u16 subtraction that overflows when
\* N mod 2^16 < 3
ReadBuffer_new(N, offset, checks) ==
    LET data_length == SubU16(AsU16(N), 3, checks)
    IN  IF N < 2 \/ ~data_length.ok THEN Panicked
        ELSE Returned(
                 [kind |-> "ReadBuffer",
                  tx_buf |-> [j \in 1..N |->
                                 IF j = 1 THEN OPCODE("ReadBuffer")
                                 ELSE IF j = 2 THEN offset
                                 ELSE 0],
                  rx_buf |-> Zeros(N),
                  data_length |-> data_length.val])

\* mutant: the payload bytes past the new length are cleared
WriteBuffer_set_data_length_clearing(c, data_length) ==
    [c EXCEPT !.data_length = data_length,
              !.tx_buf = [j \in 1..Len(c.tx_buf) |->
                             IF j > 2 + data_length THEN 0 ELSE c.tx_buf[j]]]

\* WriteBuffer::set_data_length: the field is assigned, nothing is checked
WriteBuffer_set_data_length(c, data_length) ==
    [c EXCEPT !.data_length = data_length]

\* mutant: the length is clamped to the capacity
ReadBuffer_set_data_length_clamped(c, data_length) ==
    [c EXCEPT !.data_length =
        IF data_length > Len(c.tx_buf) - 3 THEN Len(c.tx_buf) - 3 ELSE data_length]

\* mutant: the length only ever shrinks
ReadBuffer_set_data_length_shrink_only(c, data_length) ==
    [c EXCEPT !.data_length =
        IF data_length > c.data_length THEN c.data_length ELSE data_length]

\* ReadBuffer::set_data_length: the field is assigned, nothing is checked
ReadBuffer_set_data_length(c, data_length) ==
    [c EXCEPT !.data_length = data_length]

\* the bytes a variable-length command sends before its data
Header(kind) == IF kind = "WriteBuffer" THEN 2 ELSE 3

\* the capacity N of a command value
Capacity(c) == Len(c.tx_buf)

\* `a + b` on u16: with overflow checks on (debug profile) an overflowing
\* sum panics, with them off (release profile) it wraps
AddU16(a, b, checks) ==
    IF a + b <= U16Max THEN Returned(a + b)
    ELSE IF checks THEN Panicked
    ELSE Returned(AsU16(a + b))

\* mutant: the ReadBuffer header length used for WriteBuffer
WriteBuffer_transfer_size_header3(c, checks) == AddU16(c.data_length, 3, checks)

\* <WriteBuffer<N> as Command<N>>::transfer_size
WriteBuffer_transfer_size(c, checks) == AddU16(c.data_length, 2, checks)

\* mutant: the WriteBuffer header length used for ReadBuffer
ReadBuffer_transfer_size_header2(c, checks) == AddU16(c.data_length, 2, checks)

\* <ReadBuffer<N> as Command<N>>::transfer_size
ReadBuffer_transfer_size(c, checks) == AddU16(c.data_length, 3, checks)

\* transfer_size of a fixed-size kind: the literal its impl returns
Fixed_transfer_size(kind) ==
    CASE kind \in {"SetSleep", "SetStandby", "SetDio2AsRfSwitchCtrl",
                   "SetPacketType", "SetLoraSymbNumTimeout", "GetStatus"} -> 2
      [] kind \in {"ClearIrqStatus", "GetPacketType", "SetTxParams",
                   "SetBufferBaseAddress", "ClearDeviceErrors"} -> 3
      [] kind \in {"SetTx", "SetRx", "WriteRegister", "GetIrqStatus",
                   "GetRxBufferStatus", "GetDeviceErrors"} -> 4
      [] kind \in {"SetPaConfig", "ReadRegister", "SetDio3AsTcxoCtrl",
                   "SetRfFrequency", "SetModulationParamsLora",
                   "GetPacketStatusLora"} -> 5
      [] kind \in {"SetPacketParams", "ResetStats"} -> 7
      [] kind = "GetStatsLora" -> 8
      [] kind = "SetDioIrqParams" -> 9

\* Command::transfer_size, by kind
transfer_size(c, checks) ==
    CASE c.kind = "WriteBuffer" -> WriteBuffer_transfer_size(c, checks)
      [] c.kind = "ReadBuffer" -> ReadBuffer_transfer_size(c, checks)
      [] OTHER -> Returned(Fixed_transfer_size(c.kind))

\* mutant: the slice starts at the dummy byte
ReadBuffer_data_from2(c) ==
    IF 3 + c.data_length > Len(c.rx_buf) THEN Panicked
    ELSE Returned(SubSeq(c.rx_buf, 3, 2 + c.data_length))

\* ReadBuffer::data: &rx_buf[3..3 + data_length]; the slice panics when
\* its end is past the array
ReadBuffer_data(c) ==
    IF 3 + c.data_length > Len(c.rx_buf) THEN Panicked
    ELSE Returned(SubSeq(c.rx_buf, 4, 3 + c.data_length))

\* ------------------------------------------------- response accessors

\* `x as i8` of a u8: the same bits read as two's complement
AsI8(x) == IF AsU8(x) >= 128 THEN AsU8(x) - 256 ELSE AsU8(x)

\* `-x` on i8: -(-128) overflows; with overflow checks on it panics, with
\* them off it wraps to -128
NegI8(x, checks) ==
    IF x # -128 THEN Returned(-x)
    ELSE IF checks THEN Panicked
    ELSE Returned(-128)

\* mutant: division rounding toward minus infinity
DivI8_floor(a, b) == a \div b

\* `a / b` on i8 with b > 0: the quotient truncated toward zero
DivI8(a, b) == IF a >= 0 THEN a \div b ELSE -((-a) \div b)

\* `(hi as u16) << 8 | (lo as u16)`
BeU16(hi, lo) == AsU16(hi * 256) + lo

\* core::mem::transmute of a u8 to a #[repr(u8)] enum with the declared
\* codes: a declared code is that enumerant; an undeclared code is undefined
\* behaviour.  Every build may keep the byte as it is or take it for any
\* declared enumerant; a build of the debug profile (the one with overflow
\* checks) may also check the value and abort the process ("trying to
\* construct an enum from an invalid value").  The result is the set of
\* possible outcomes.
Transmute(codes, x, checks) ==
    IF x \in codes THEN {Returned(x)}
    ELSE {Returned(v) : v \in {x} \cup codes}
             \cup (IF checks THEN {Panicked} ELSE {})

StatusChipMode == 0..7
StatusCommandStatus == 0..7

\* StatusChipMode::extract: transmute((value >> 4) & 0x07)
StatusChipMode_extract(value, checks) ==
    Transmute(StatusChipMode, Shr(value, 4) % 8, checks)

\* StatusCommandStatus::extract: transmute((value >> 1) & 0x03)
StatusCommandStatus_extract(value, checks) ==
    Transmute(StatusCommandStatus, Shr(value, 1) % 4, checks)

\* PacketType::from: transmute(value & 0x03)
PacketType_from(value, checks) ==
    Transmute(PacketType, value % 4, checks)

\* RampTime::from: transmute(value & 0x07)
RampTime_from(value, checks) ==
    Transmute(RampTime, value % 8, checks)

\* Sf::from: transmute(value & 0x0F)
Sf_from(value, checks) ==
    Transmute(Sf, value % 16, checks)

\* Bw::from: transmute(value & 0x0F)
Bw_from(value, checks) ==
    Transmute(Bw, value % 16, checks)

\* Cr::from: transmute(value & 0x07)
Cr_from(value, checks) ==
    Transmute(Cr, value % 8, checks)

\* HeaderType::from: transmute(value & 0x01)
HeaderType_from(value, checks) ==
    Transmute(HeaderType, value % 2, checks)

\* InvertIq::from: transmute(value & 0x01)
InvertIq_from(value, checks) ==
    Transmute(InvertIq, value % 2, checks)

\* the decoders by enumeration name
EnumNames ==
    {"PacketType", "RampTime", "Sf", "Bw", "Cr", "HeaderType", "InvertIq"}

Enum_from(enum, value, checks) ==
    CASE enum = "PacketType" -> PacketType_from(value, checks)
      [] enum = "RampTime" -> RampTime_from(value, checks)
      [] enum = "Sf" -> Sf_from(value, checks)
      [] enum = "Bw" -> Bw_from(value, checks)
      [] enum = "Cr" -> Cr_from(value, checks)
      [] enum = "HeaderType" -> HeaderType_from(value, checks)
      [] enum = "InvertIq" -> InvertIq_from(value, checks)

\* GetStatus::chip_mode / command_status
GetStatus_chip_mode(c, checks) ==
    StatusChipMode_extract(At(c.rx_buf, 1), checks)
GetStatus_command_status(c, checks) ==
    StatusCommandStatus_extract(At(c.rx_buf, 1), checks)

\* GetPacketType::packet_type
GetPacketType_packet_type(c, checks) ==
    PacketType_from(At(c.rx_buf, 2), checks)

\* mutant: the response is decoded low byte first
GetIrqStatus_irq_status_low_first(c) ==
    Bitfield_from_bits("Irq", BeU16(At(c.rx_buf, 3), At(c.rx_buf, 2)))

\* GetIrqStatus::irq_status
GetIrqStatus_irq_status(c) ==
    Bitfield_from_bits("Irq", BeU16(At(c.rx_buf, 2), At(c.rx_buf, 3)))

\* GetDeviceErrors::op_error
GetDeviceErrors_op_error(c) ==
    Bitfield_from_bits("OpError", BeU16(At(c.rx_buf, 2), At(c.rx_buf, 3)))

\* mutant: the status byte returned as the payload length
GetRxBufferStatus_payload_length_rx_status(c) == At(c.rx_buf, 0)

\* GetRxBufferStatus::payload_length_rx / rx_start_buffer_pointer
GetRxBufferStatus_payload_length_rx(c) == At(c.rx_buf, 2)
GetRxBufferStatus_rx_start_buffer_pointer(c) == At(c.rx_buf, 3)

\* mutant: the raw byte is not halved
GetPacketStatusLora_rssi_pkt_whole(c, checks) ==
    NegI8(AsI8(At(c.rx_buf, 2)), checks)

\* GetPacketStatusLora::rssi_pkt: -((rx_buf[2] / 2) as i8)
GetPacketStatusLora_rssi_pkt(c, checks) ==
    NegI8(AsI8(At(c.rx_buf, 2) \div 2), checks)

\* GetPacketStatusLora::snr_pkt: (rx_buf[3] as i8) / 4
GetPacketStatusLora_snr_pkt(c) == DivI8(AsI8(At(c.rx_buf, 3)), 4)

\* GetPacketStatusLora::signal_rssi_pkt: -((rx_buf[4] / 2) as i8)
GetPacketStatusLora_signal_rssi_pkt(c, checks) ==
    NegI8(AsI8(At(c.rx_buf, 4) \div 2), checks)

\* GetStatsLora::nb_pkt_received / nb_pkt_crc_error / nb_pkt_header_err
GetStatsLora_nb_pkt_received(c) == BeU16(At(c.rx_buf, 2), At(c.rx_buf, 3))
GetStatsLora_nb_pkt_crc_error(c) == BeU16(At(c.rx_buf, 4), At(c.rx_buf, 5))
GetStatsLora_nb_pkt_header_err(c) == BeU16(At(c.rx_buf, 6), At(c.rx_buf, 7))

\* mutant: the byte before the value byte is decoded
ReadRegister_register_byte3(c) == Register_from_bits(c.register, At(c.rx_buf, 3))

\* ReadRegister::<R>::register: R::from_bits(rx_buf[4])
ReadRegister_register(c) == Register_from_bits(c.register, At(c.rx_buf, 4))

\* ------------------------------------------------------------- inputs

\* u8 arguments
U8Samples == {0, 1, 255}

\* u16 arguments (preamble length)
U16Samples == {0, 8, 65535}

\* u32 arguments (timeouts, delays, frequencies)
\* 0, 120, 6862921 (0x0068B849), 0x0168B849, 455081984 (0x1B200000), u32::MAX
U32Samples ==
    {U32(0, 0), U32(0, 120), U32(104, 47177), U32(360, 47177), U32(6944, 0),
     U32(65535, 65535)}

\* capacities of WriteBuffer<N> (N - 2 must be a length) and ReadBuffer<N>
\* capacities around the largest u16, the type of data_length
LargeCapacities == {U16Max, U16Max + 1, U16Max + 4}

WriteCapacities == 2..MaxN
ReadCapacities == 3..MaxN

\* device-side offsets and payload bytes
OffsetSamples == {0, 16}
PayloadBytes == {104, 101}

\* the payloads of length n
Payloads(n) == [1..n -> PayloadBytes]

\* arguments of set_data_length: every length up to one past the largest
\* capacity, and the top of the u16 range
DataLengths == 0..(MaxN + 1) \cup {U16Max - 3, U16Max - 2, U16Max - 1, U16Max}

\* bytes the caller or the transport stores into rx_buf
RxBytes == {0, 165}

\* bitfield arguments, built with the builders
SleepConfigSamples ==
    {Bitfield_new("SleepConfig"),
     Bitfield_with("SleepConfig", Bitfield_new("SleepConfig"), "warm_start", TRUE)}

IrqSamples ==
    {Bitfield_new("Irq"),
     Bitfield_with("Irq", Bitfield_new("Irq"), "tx_done", TRUE),
     Bitfield_with("Irq", Bitfield_with("Irq", Bitfield_new("Irq"), "timeout", TRUE),
                   "header_valid", TRUE)}

SfSamples == {5, 10}
BwSamples == {4, 10}
CrSamples == {1, 7}

\* -------------------------------------------------------------- state

\* no command value is alive
NoCommand == [kind |-> "None", tx_buf |-> <<>>, rx_buf |-> <<>>]

\* the last call and what it returned
Ret(op, res) == [op |-> op, res |-> res]

NoBitfield == [type |-> "None", bits |-> 0, given |-> <<>>]

Init ==
    /\ cmd = NoCommand
    /\ ret = Ret("none", Returned(0))
    /\ overflow_checks \in BOOLEAN
    /\ bf = NoBitfield
    /\ statics = <<>>
    /\ queue = <<>>
    /\ enqueued = <<>>
    /\ dequeued = <<>>

\* a panic ends the program
Running == ret.res.ok

Alive == cmd.kind # "None"

\* a command can be constructed when none is alive
CanConstruct == Running /\ ~Alive

\* what every constructor action leaves behind besides the command value:
\* the call and the arguments it was given
Constructed(args) ==
    /\ ret' = Ret("new", Returned(args))
    /\ UNCHANGED <<overflow_checks, bf, transport>>

New_SetSleep ==
    /\ CanConstruct
    /\ \E x \in SleepConfigSamples :
           /\ cmd' = SetSleep_new(x)
           /\ Constructed(<<x>>)

New_SetStandby ==
    /\ CanConstruct
    /\ \E x \in StdbyConfig :
           /\ cmd' = SetStandby_new(x)
           /\ Constructed(<<x>>)

New_SetTx ==
    /\ CanConstruct
    /\ \E t \in U32Samples :
           /\ cmd' = SetTx_new(t)
           /\ Constructed(<<t>>)

New_SetRx ==
    /\ CanConstruct
    /\ \E t \in U32Samples :
           /\ cmd' = SetRx_new(t)
           /\ Constructed(<<t>>)

New_SetPaConfig ==
    /\ CanConstruct
    /\ \E a \in U8Samples, b \in U8Samples :
           /\ cmd' = SetPaConfig_new(a, b)
           /\ Constructed(<<a, b>>)

New_WriteRegister ==
    /\ CanConstruct
    /\ \E R \in RegisterTypes, v \in U8Samples :
           /\ cmd' = WriteRegister_new(R, v)
           /\ Constructed(<<R, v>>)

New_ReadRegister ==
    /\ CanConstruct
    /\ \E R \in RegisterTypes :
           /\ cmd' = ReadRegister_new(R)
           /\ Constructed(<<R>>)

New_SetDioIrqParams ==
    /\ CanConstruct
    /\ \E a \in IrqSamples, b \in IrqSamples, c \in IrqSamples, d \in IrqSamples :
           /\ cmd' = SetDioIrqParams_new(a, b, c, d)
           /\ Constructed(<<a, b, c, d>>)

New_GetIrqStatus ==
    /\ CanConstruct
    /\ cmd' = GetIrqStatus_new
    /\ Constructed(<<>>)

New_ClearIrqStatus ==
    /\ CanConstruct
    /\ \E x \in IrqSamples :
           /\ cmd' = ClearIrqStatus_new(x)
           /\ Constructed(<<x>>)

New_SetDio2AsRfSwitchCtrl ==
    /\ CanConstruct
    /\ \E e \in BOOLEAN :
           /\ cmd' = SetDio2AsRfSwitchCtrl_new(e)
           /\ Constructed(<<e>>)

New_SetDio3AsTcxoCtrl ==
    /\ CanConstruct
    /\ \E v \in TcxoVoltage, d \in U32Samples :
           /\ cmd' = SetDio3AsTcxoCtrl_new(v, d)
           /\ Constructed(<<v, d>>)

New_SetRfFrequency ==
    /\ CanConstruct
    /\ \E f \in U32Samples :
           /\ cmd' = SetRfFrequency_new(f)
           /\ Constructed(<<f>>)

New_SetPacketType ==
    /\ CanConstruct
    /\ \E t \in PacketType :
           /\ cmd' = SetPacketType_new(t)
           /\ Constructed(<<t>>)

New_GetPacketType ==
    /\ CanConstruct
    /\ cmd' = GetPacketType_new
    /\ Constructed(<<>>)

New_SetTxParams ==
    /\ CanConstruct
    /\ \E p \in U8Samples, r \in RampTime :
           /\ cmd' = SetTxParams_new(p, r)
           /\ Constructed(<<p, r>>)

New_SetModulationParamsLora ==
    /\ CanConstruct
    /\ \E sf \in SfSamples, bw \in BwSamples, cr \in CrSamples, l \in BOOLEAN :
           /\ cmd' = SetModulationParamsLora_new(sf, bw, cr, l)
           /\ Constructed(<<sf, bw, cr, l>>)

New_SetPacketParams ==
    /\ CanConstruct
    /\ \E pre \in U16Samples, h \in HeaderType, len \in U8Samples, crc \in BOOLEAN, iq \in InvertIq :
           /\ cmd' = SetPacketParams_new(pre, h, len, crc, iq)
           /\ Constructed(<<pre, h, len, crc, iq>>)

New_SetBufferBaseAddress ==
    /\ CanConstruct
    /\ \E a \in U8Samples, b \in U8Samples :
           /\ cmd' = SetBufferBaseAddress_new(a, b)
           /\ Constructed(<<a, b>>)

New_SetLoraSymbNumTimeout ==
    /\ CanConstruct
    /\ \E n \in U8Samples :
           /\ cmd' = SetLoraSymbNumTimeout_new(n)
           /\ Constructed(<<n>>)

New_GetStatus ==
    /\ CanConstruct
    /\ cmd' = GetStatus_new
    /\ Constructed(<<>>)

New_GetRxBufferStatus ==
    /\ CanConstruct
    /\ cmd' = GetRxBufferStatus_new
    /\ Constructed(<<>>)

New_GetPacketStatusLora ==
    /\ CanConstruct
    /\ cmd' = GetPacketStatusLora_new
    /\ Constructed(<<>>)

New_GetStatsLora ==
    /\ CanConstruct
    /\ cmd' = GetStatsLora_new
    /\ Constructed(<<>>)

New_ResetStats ==
    /\ CanConstruct
    /\ cmd' = ResetStats_new
    /\ Constructed(<<>>)

New_GetDeviceErrors ==
    /\ CanConstruct
    /\ cmd' = GetDeviceErrors_new
    /\ Constructed(<<>>)

New_ClearDeviceErrors ==
    /\ CanConstruct
    /\ cmd' = ClearDeviceErrors_new
    /\ Constructed(<<>>)

New_WriteBuffer ==
    /\ CanConstruct
    /\ \E N \in WriteCapacities, off \in OffsetSamples : \E data \in Payloads(N - 2) :
           LET made == WriteBuffer_new(N, off, data, overflow_checks)
           IN  IF made.ok
               THEN /\ cmd' = made.val
                    /\ Constructed(<<N, off, data>>)
               ELSE /\ ret' = Ret("new", Panicked)
                    /\ UNCHANGED <<cmd, overflow_checks, bf, transport>>

New_ReadBuffer ==
    /\ CanConstruct
    /\ \E N \in ReadCapacities, off \in OffsetSamples :
           LET made == ReadBuffer_new(N, off, overflow_checks)
           IN  IF made.ok
               THEN /\ cmd' = made.val
                    /\ Constructed(<<N, off>>)
               ELSE /\ ret' = Ret("new", Panicked)
                    /\ UNCHANGED <<cmd, overflow_checks, bf, transport>>

\* WriteBuffer::<N>::new(0, [0; N - 2]).transfer_size() on a temporary, for
\* a capacity N around the largest u16; the call is recorded with its kind
\* and N, also when it panics
New_WriteBuffer_Large ==
    /\ CanConstruct
    /\ \E N \in LargeCapacities :
           LET made == WriteBuffer_new(N, 0, Zeros(N - 2), overflow_checks)
               size == IF made.ok THEN transfer_size(made.val, overflow_checks)
                       ELSE Panicked
           IN  ret' = Ret("new_transfer_size",
                          [size EXCEPT !.val = <<"WriteBuffer", N, size.val>>])
    /\ UNCHANGED <<cmd, overflow_checks, bf, transport>>

\* ReadBuffer::<N>::new(0).transfer_size() on a temporary, likewise
New_ReadBuffer_Large ==
    /\ CanConstruct
    /\ \E N \in LargeCapacities :
           LET made == ReadBuffer_new(N, 0, overflow_checks)
               size == IF made.ok THEN transfer_size(made.val, overflow_checks)
                       ELSE Panicked
           IN  ret' = Ret("new_transfer_size",
                          [size EXCEPT !.val = <<"ReadBuffer", N, size.val>>])
    /\ UNCHANGED <<cmd, overflow_checks, bf, transport>>

\* the caller drops the command value
Drop ==
    /\ Running
    /\ Alive
    /\ cmd' = NoCommand
    /\ ret' = Ret("none", Returned(0))
    /\ UNCHANGED <<overflow_checks, bf, transport>>

\* write_buffer.set_data_length(d) / read_buffer.set_data_length(d)
SetDataLength(d) ==
    /\ Running
    /\ cmd.kind \in VariableKinds
    /\ cmd' = IF cmd.kind = "WriteBuffer" THEN WriteBuffer_set_data_length(cmd, d)
              ELSE ReadBuffer_set_data_length(cmd, d)
    /\ ret' = Ret("set_data_length", Returned(d))
    /\ UNCHANGED <<overflow_checks, bf, transport>>

\* a byte of the public rx_buf is stored (by the transport or the caller)
RxWrite(i, b) ==
    /\ Running
    /\ Alive
    /\ i < Len(cmd.rx_buf)
    /\ cmd' = [cmd EXCEPT !.rx_buf[i + 1] = b]
    /\ ret' = Ret("rx_write", Returned(0))
    /\ UNCHANGED <<overflow_checks, bf, transport>>

\* cmd.transfer_size()
CallTransferSize ==
    /\ Running
    /\ Alive
    /\ ret' = Ret("transfer_size", transfer_size(cmd, overflow_checks))
    /\ UNCHANGED <<cmd, overflow_checks, bf, transport>>

\* read_buffer.data()
CallData ==
    /\ Running
    /\ cmd.kind = "ReadBuffer"
    /\ ret' = Ret("data", ReadBuffer_data(cmd))
    /\ UNCHANGED <<cmd, overflow_checks, bf, transport>>

Next ==
    \/ New_SetSleep \/ New_SetStandby \/ New_SetTx \/ New_SetRx
    \/ New_SetPaConfig \/ New_WriteRegister \/ New_ReadRegister
    \/ New_SetDioIrqParams \/ New_GetIrqStatus \/ New_ClearIrqStatus
    \/ New_SetDio2AsRfSwitchCtrl \/ New_SetDio3AsTcxoCtrl
    \/ New_SetRfFrequency \/ New_SetPacketType \/ New_GetPacketType
    \/ New_SetTxParams \/ New_SetModulationParamsLora \/ New_SetPacketParams
    \/ New_SetBufferBaseAddress \/ New_SetLoraSymbNumTimeout \/ New_GetStatus
    \/ New_GetRxBufferStatus \/ New_GetPacketStatusLora \/ New_GetStatsLora
    \/ New_ResetStats \/ New_GetDeviceErrors \/ New_ClearDeviceErrors
    \/ New_WriteBuffer \/ New_ReadBuffer
    \/ New_WriteBuffer_Large \/ New_ReadBuffer_Large
    \/ Drop
    \/ \E d \in DataLengths : SetDataLength(d)
    \/ \E i \in 0..8, b \in RxBytes : RxWrite(i, b)
    \/ CallTransferSize
    \/ CallData

Spec == Init /\ [][Next]_vars

\* ------------------------------------------------- response decoding

\* the kinds with decoding accessors
ResponseKinds ==
    {"GetStatus", "GetPacketType", "GetIrqStatus", "GetDeviceErrors",
     "GetRxBufferStatus", "GetPacketStatusLora", "GetStatsLora",
     "ReadRegister", "ReadBuffer"}

\* the accessors of a kind
Accessors(kind) ==
    CASE kind = "GetStatus" -> {"chip_mode", "command_status"}
      [] kind = "GetPacketType" -> {"packet_type"}
      [] kind = "GetIrqStatus" -> {"irq_status"}
      [] kind = "GetDeviceErrors" -> {"op_error"}
      [] kind = "GetRxBufferStatus" ->
             {"payload_length_rx", "rx_start_buffer_pointer"}
      [] kind = "GetPacketStatusLora" ->
             {"rssi_pkt", "snr_pkt", "signal_rssi_pkt"}
      [] kind = "GetStatsLora" ->
             {"nb_pkt_received", "nb_pkt_crc_error", "nb_pkt_header_err"}
      [] kind = "ReadRegister" -> {"register"}
      [] kind = "ReadBuffer" -> {"data"}
      [] OTHER -> {}

\* c.<name>(): the set of possible results of the call
Accessor(c, name, checks) ==
    CASE name = "chip_mode" -> GetStatus_chip_mode(c, checks)
      [] name = "command_status" -> GetStatus_command_status(c, checks)
      [] name = "packet_type" -> GetPacketType_packet_type(c, checks)
      [] name = "irq_status" -> {Returned(GetIrqStatus_irq_status(c))}
      [] name = "op_error" -> {Returned(GetDeviceErrors_op_error(c))}
      [] name = "payload_length_rx" ->
             {Returned(GetRxBufferStatus_payload_length_rx(c))}
      [] name = "rx_start_buffer_pointer" ->
             {Returned(GetRxBufferStatus_rx_start_buffer_pointer(c))}
      [] name = "rssi_pkt" -> {GetPacketStatusLora_rssi_pkt(c, checks)}
      [] name = "snr_pkt" -> {Returned(GetPacketStatusLora_snr_pkt(c))}
      [] name = "signal_rssi_pkt" ->
             {GetPacketStatusLora_signal_rssi_pkt(c, checks)}
      [] name = "nb_pkt_received" ->
             {Returned(GetStatsLora_nb_pkt_received(c))}
      [] name = "nb_pkt_crc_error" ->
             {Returned(GetStatsLora_nb_pkt_crc_error(c))}
      [] name = "nb_pkt_header_err" ->
             {Returned(GetStatsLora_nb_pkt_header_err(c))}
      [] name = "register" -> {Returned(ReadRegister_register(c))}
      [] name = "data" -> {ReadBuffer_data(c)}

\* every byte value
RawBytes == 0..255

\* lengths a ReadBuffer is shrunk to while its response is decoded
ShortLengths == {0, 1}

\* the transport stores a response into the public rx_buf of a command that
\* has not been decoded yet: some byte r at some index p, the byte `fill`
\* everywhere else
Transfer ==
    /\ Running
    /\ cmd.kind \in ResponseKinds
    /\ cmd.rx_buf = Zeros(Len(cmd.rx_buf))
    /\ ret.op \in {"new", "set_data_length"}
    /\ \E p \in 0..(Len(cmd.rx_buf) - 1), r \in RawBytes, fill \in RxBytes :
           cmd' = [cmd EXCEPT !.rx_buf =
                       [j \in 1..Len(cmd.rx_buf) |->
                           IF j = p + 1 THEN r ELSE fill]]
    /\ ret' = Ret("transfer", Returned(0))
    /\ UNCHANGED <<overflow_checks, bf, transport>>

\* cmd.<name>()
CallAccessor(name) ==
    /\ Running
    /\ name \in Accessors(cmd.kind)
    /\ \E res \in Accessor(cmd, name, overflow_checks) : ret' = Ret(name, res)
    /\ UNCHANGED <<cmd, overflow_checks, bf, transport>>

\* E::from(value) for an enumeration E and a byte, called on its own; the
\* call is recorded with its arguments, also when it aborts
CallFrom ==
    /\ Running
    /\ ~Alive
    /\ ret.op = "none"
    /\ \E enum \in EnumNames, value \in RawBytes :
           \E res \in Enum_from(enum, value, overflow_checks) :
               ret' = Ret("from", [res EXCEPT !.val = <<enum, value, res.val>>])
    /\ UNCHANGED <<cmd, overflow_checks, bf, transport>>

\* ClearIrqStatus::new(x), x being the Irq that irq_status() just returned
Reencode_ClearIrqStatus ==
    /\ Running
    /\ cmd.kind = "GetIrqStatus"
    /\ ret.op = "irq_status"
    /\ cmd' = ClearIrqStatus_new(ret.res.val)
    /\ Constructed(<<ret.res.val>>)

\* SetDioIrqParams::new(x, x, x, x), x being the Irq that irq_status() just
\* returned
Reencode_SetDioIrqParams ==
    /\ Running
    /\ cmd.kind = "GetIrqStatus"
    /\ ret.op = "irq_status"
    /\ cmd' = SetDioIrqParams_new(ret.res.val, ret.res.val, ret.res.val,
                                  ret.res.val)
    /\ Constructed(<<ret.res.val, ret.res.val, ret.res.val, ret.res.val>>)

NextRx ==
    \/ New_GetStatus \/ New_GetPacketType \/ New_GetIrqStatus
    \/ New_GetDeviceErrors \/ New_GetRxBufferStatus
    \/ New_GetPacketStatusLora \/ New_GetStatsLora
    \/ New_ReadRegister \/ New_ReadBuffer
    \/ Transfer
    \/ \E d \in ShortLengths : SetDataLength(d)
    \/ \E name \in Accessors(cmd.kind) : CallAccessor(name)
    \/ CallFrom
    \/ Reencode_ClearIrqStatus
    \/ Reencode_SetDioIrqParams
    \/ Drop

\* responses stored by the transport and decoded by the accessors
SpecRx == Init /\ [][NextRx]_vars


\* ------------------------------------------------ bitfield builder steps

\* a bitfield value is built before the command that takes it
CanBuild == Running /\ ~Alive

\* T::new(); `given` keeps what the caller has asked each field to be
Bf_New(type) ==
    /\ CanBuild
    /\ bf' = [type |-> type, bits |-> Bitfield_new(type),
              given |-> [n \in FieldNames(type) |-> FALSE]]
    /\ ret' = Ret("bf_new", Returned(0))
    /\ UNCHANGED <<cmd, overflow_checks, transport>>

\* bf = bf.with_<name>(v)
Bf_With(name, v) ==
    /\ CanBuild
    /\ bf.type # "None"
    /\ name \in FieldNames(bf.type)
    /\ bf' = [bf EXCEPT !.bits = Bitfield_with(bf.type, bf.bits, name, v),
                        !.given[name] = v]
    /\ ret' = Ret("with", Returned(0))
    /\ UNCHANGED <<cmd, overflow_checks, transport>>

\* bf.into_bits()
Bf_IntoBits ==
    /\ CanBuild
    /\ bf.type # "None"
    /\ ret' = Ret("into_bits", Returned(Bitfield_into_bits(bf.type, bf.bits)))
    /\ UNCHANGED <<cmd, bf, overflow_checks, transport>>

\* bf = T::from_bits(raw), raw being what into_bits() just returned
Bf_FromBits ==
    /\ CanBuild
    /\ ret.op = "into_bits"
    /\ bf' = [bf EXCEPT !.bits = Bitfield_from_bits(bf.type, ret.res.val)]
    /\ ret' = Ret("from_bits", Returned(ret.res.val))
    /\ UNCHANGED <<cmd, overflow_checks, transport>>

\* bf.<name>()
Bf_Get(name) ==
    /\ CanBuild
    /\ bf.type # "None"
    /\ name \in FieldNames(bf.type)
    /\ ret' = Ret("get", Returned(<<name, Bitfield_get(bf.type, bf.bits, name)>>))
    /\ UNCHANGED <<cmd, bf, overflow_checks, transport>>

\* SetSleep::new(bf) with the SleepConfig that was built
New_SetSleep_Built ==
    /\ CanConstruct
    /\ bf.type = "SleepConfig"
    /\ cmd' = SetSleep_new(bf.bits)
    /\ Constructed(<<bf.bits>>)

\* ClearIrqStatus::new(bf) with the Irq that was built
New_ClearIrqStatus_Built ==
    /\ CanConstruct
    /\ bf.type = "Irq"
    /\ cmd' = ClearIrqStatus_new(bf.bits)
    /\ Constructed(<<bf.bits>>)

\* SetDioIrqParams::new with the Irq that was built as one of the four masks
\* and another Irq as the other three
New_SetDioIrqParams_Built ==
    /\ CanConstruct
    /\ bf.type = "Irq"
    /\ \E k \in 1..4, y \in IrqSamples :
           LET mask == [i \in 1..4 |-> IF i = k THEN bf.bits ELSE y]
           IN  /\ cmd' = SetDioIrqParams_new(mask[1], mask[2], mask[3], mask[4])
               /\ Constructed(mask)

\* the mask sent is read back: a GetIrqStatus::new() takes the place of the
\* ClearIrqStatus, the byte pair the ClearIrqStatus sent copied into
\* rx_buf[2..3] and some byte `fill` before it
Echo_GetIrqStatus ==
    /\ Running
    /\ cmd.kind = "ClearIrqStatus"
    /\ \E fill \in RxBytes :
           cmd' = [GetIrqStatus_new EXCEPT !.rx_buf =
                       <<fill, fill, At(cmd.tx_buf, 1), At(cmd.tx_buf, 2)>>]
    /\ ret' = Ret("echo", Returned(0))
    /\ UNCHANGED <<overflow_checks, bf, transport>>

NextBits ==
    \/ \E type \in BitfieldTypes : Bf_New(type)
    \/ \E name \in FieldNames(bf.type), v \in BOOLEAN : Bf_With(name, v)
    \/ Bf_IntoBits
    \/ Bf_FromBits
    \/ \E name \in FieldNames(bf.type) : Bf_Get(name)
    \/ New_SetSleep_Built
    \/ New_ClearIrqStatus_Built
    \/ New_SetDioIrqParams_Built
    \/ Echo_GetIrqStatus
    \/ \E name \in Accessors(cmd.kind) : CallAccessor(name)
    \/ Drop

\* the bitfield builders, with the commands built from the result
SpecBits == Init /\ [][NextBits]_vars

\* ------------------------------------------------- register write and read

\* the caller makes a register value R(v); it is held in `bf` as the type
\* and the wrapped byte
Reg_New ==
    /\ CanBuild
    /\ \E R \in RegisterTypes, v \in RawBytes :
           bf' = [type |-> R, bits |-> v, given |-> <<>>]
    /\ ret' = Ret("reg_new", Returned(0))
    /\ UNCHANGED <<cmd, overflow_checks, transport>>

\* WriteRegister::new(R(v)) with the register value held
New_WriteRegister_Held ==
    /\ CanConstruct
    /\ bf.type \in RegisterTypes
    /\ cmd' = WriteRegister_new(bf.type, bf.bits)
    /\ Constructed(<<bf.type, bf.bits>>)

\* the register written is read back: a ReadRegister::<R>::new() takes the
\* place of the WriteRegister, the device answering with the value byte the
\* WriteRegister sent in rx_buf[4] and some byte `fill` before it
Echo_ReadRegister ==
    /\ Running
    /\ cmd.kind = "WriteRegister"
    /\ bf.type \in RegisterTypes
    /\ \E fill \in RxBytes :
           cmd' = [ReadRegister_new(bf.type) EXCEPT !.rx_buf =
                       [j \in 1..5 |-> IF j = 5 THEN At(cmd.tx_buf, 3) ELSE fill]]
    /\ ret' = Ret("echo", Returned(0))
    /\ UNCHANGED <<overflow_checks, bf, transport>>

NextReg ==
    \/ Reg_New
    \/ New_WriteRegister_Held
    \/ New_ReadRegister
    \/ Echo_ReadRegister
    \/ \E name \in Accessors(cmd.kind) : CallAccessor(name)
    \/ Drop

\* registers written and read back
SpecReg == Init /\ [][NextReg]_vars

\* ------------------------------------------------------ transfer queue

\* Largest number of descriptors made in a run that is explored.
MaxDescriptors == 3

\* Queue<SpiDescriptor, 8>: the capacity of the test's queue
QueueCapacity == 8

\* payloads of the WriteBuffer statics: the test's
QueuePayloads == {<<2, 4, 7, 9, 3>>}

\* SpiDescriptor::new(&mut command): a reference to the command's outbound
\* bytes, a mutable reference to its inbound bytes, and the transfer length,
\* which is the command's transfer_size() when the descriptor is made.  A
\* reference is the index of the command among the statics, under the field
\* names the test reads.
SpiDescriptor_new(i, c, checks) ==
    LET size == transfer_size(c, checks)
    IN  IF size.ok
        THEN Returned([tx_buf_ptr |-> i, rx_buf_ptr |-> i,
                       transfer_length |-> size.val])
        ELSE Panicked

\* queue.enqueue(item): the item goes behind the items already queued
Queue_enqueue(q, item) == Append(q, item)

\* queue.dequeue(): the item queued first, and the queue without it
Queue_dequeue(q) == [item |-> Head(q), rest |-> Tail(q)]

\* the statics of the test: SET_SLEEP, SET_STANDY and WRITE_BUFFER
StaticNames == {"SetSleep", "SetStandby", "WriteBuffer"}

\* the statics declared so far, by the kind of their command
StaticKinds == {statics[i].value.kind : i \in 1..Len(statics)}

\* a static is declared once, before the program hands any to the queue
CanDeclare(kind) ==
    /\ Running
    /\ kind \in StaticNames
    /\ kind \notin StaticKinds
    /\ enqueued = <<>>

\* what a `static mut` declaration leaves behind: its initializer and the
\* value the initializer evaluates to
Allocated(init, c) ==
    /\ statics' = Append(statics, [new |-> init, value |-> c])
    /\ ret' = Ret("static", Returned(0))
    /\ UNCHANGED <<cmd, overflow_checks, bf, queue, enqueued, dequeued>>

\* static mut SET_SLEEP: SetSleep = SetSleep::new(sleep_config)
Static_SetSleep ==
    /\ CanDeclare("SetSleep")
    /\ \E x \in SleepConfigSamples :
           Allocated(<<"SetSleep", x>>, SetSleep_new(x))

\* static mut SET_STANDY: SetStandby = SetStandby::new(stdby_config)
Static_SetStandby ==
    /\ CanDeclare("SetStandby")
    /\ \E x \in StdbyConfig :
           Allocated(<<"SetStandby", x>>, SetStandby_new(x))

\* static mut WRITE_BUFFER: WriteBuffer<N> = WriteBuffer::new(0, data); an
\* initializer that panics is rejected when the program is compiled
Static_WriteBuffer ==
    /\ CanDeclare("WriteBuffer")
    /\ \E data \in QueuePayloads :
           LET made == WriteBuffer_new(Len(data) + 2, 0, data, overflow_checks)
           IN  /\ made.ok
               /\ Allocated(<<"WriteBuffer", 0, data>>, made.val)

\* WRITE_BUFFER.set_data_length(d): a `static mut` is reached by name in an
\* unsafe block at any time, also while a descriptor made from it is queued
Static_SetDataLength(i, d) ==
    /\ Running
    /\ i \in 1..Len(statics)
    /\ statics[i].value.kind = "WriteBuffer"
    /\ statics' = [statics EXCEPT
                       ![i].value = WriteBuffer_set_data_length(@, d)]
    /\ ret' = Ret("set_data_length", Returned(d))
    /\ UNCHANGED <<cmd, overflow_checks, bf, queue, enqueued, dequeued>>

\* queue.enqueue(SpiDescriptor::new(&mut STATIC)), of any static, also one
\* whose descriptor is queued (references to a `static mut` are not
\* tracked); at most MaxDescriptors descriptors are made in a run that is
\* explored.  The log `enqueued` keeps each descriptor with the command as it
\* was when the descriptor was made.
Enqueue(i) ==
    /\ Running
    /\ i \in 1..Len(statics)
    /\ Len(enqueued) < MaxDescriptors
    /\ Len(queue) < QueueCapacity
    /\ LET desc == SpiDescriptor_new(i, statics[i].value, overflow_checks)
       IN  IF desc.ok
           THEN /\ queue' = Queue_enqueue(queue, desc.val)
                /\ enqueued' = Append(enqueued, [desc |-> desc.val,
                                                 of |-> statics[i].value])
                /\ ret' = Ret("enqueue", Returned(0))
           ELSE /\ ret' = Ret("enqueue", Panicked)
                /\ UNCHANGED <<queue, enqueued>>
    /\ UNCHANGED <<cmd, overflow_checks, bf, statics, dequeued>>

\* queue.dequeue().unwrap() and the transfer of the descriptor's bytes, after
\* which the descriptor is gone; unwrapping the None of an empty queue panics
Dequeue ==
    /\ Running
    /\ IF queue = <<>>
       THEN /\ ret' = Ret("dequeue", Panicked)
            /\ UNCHANGED <<queue, dequeued>>
       ELSE LET got == Queue_dequeue(queue)
            IN  /\ ret' = Ret("dequeue", Returned(got.item))
                /\ queue' = got.rest
                /\ dequeued' = Append(dequeued, got.item)
    /\ UNCHANGED <<cmd, overflow_checks, bf, statics, enqueued>>

NextQueue ==
    \/ Static_SetSleep \/ Static_SetStandby \/ Static_WriteBuffer
    \/ \E i \in 1..Cardinality(StaticNames), d \in ShortLengths :
           Static_SetDataLength(i, d)
    \/ \E i \in 1..Cardinality(StaticNames) : Enqueue(i)
    \/ Dequeue

SpecQueue == Init /\ [][NextQueue]_vars


\* ================================================================ claims

IsVariable == cmd.kind \in VariableKinds
IsFixed == cmd.kind \in FixedKinds

\* the largest data_length the capacity allows
MaxDataLength(c) == Capacity(c) - Header(c.kind)

\* ---------------------------------------------------------------- C1

\* C1, as stated: in every state reached by constructing a command and
\* calling set_data_length(d) with arbitrary u16 d, transfer_size() <= N,
\* i.e. data_length + header <= N.
C1_TransferSizeWithinCapacityAnyLength ==
    Alive =>
        /\ transfer_size(cmd, overflow_checks).ok
        /\ transfer_size(cmd, overflow_checks).val <= Capacity(cmd)
        /\ IsVariable => cmd.data_length + Header(cmd.kind) <= Capacity(cmd)

\* C1, amended: a constructor leaves data_length = N - header, a call
\* set_data_length(d) with d <= N - header leaves data_length <= N - header,
\* and in every state with data_length <= N - header (and for every
\* fixed-size command) transfer_size() returns a value <= N.
C1_TransferSizeWithinCapacity ==
    Alive =>
        /\ (IsVariable /\ ret.op = "new") =>
               cmd.data_length = MaxDataLength(cmd)
        /\ (IsVariable /\ ret.op = "set_data_length"
                /\ ret.res.val <= MaxDataLength(cmd)) =>
               cmd.data_length <= MaxDataLength(cmd)
        /\ (IsFixed \/ cmd.data_length <= MaxDataLength(cmd)) =>
               /\ transfer_size(cmd, overflow_checks).ok
               /\ transfer_size(cmd, overflow_checks).val <= Capacity(cmd)
        /\ (ret.op = "transfer_size"
                /\ (IsFixed \/ cmd.data_length <= MaxDataLength(cmd))) =>
               ret.res.ok /\ ret.res.val <= Capacity(cmd)

\* a shrunk WriteBuffer whose transfer_size() has been called
C1_Witness ==
    /\ cmd.kind = "WriteBuffer"
    /\ Capacity(cmd) = 4
    /\ cmd.data_length = 1
    /\ ret = Ret("transfer_size", Returned(3))

\* ---------------------------------------------------------------- C2

\* C2: for every command kind and every constructor argument, tx_buf[0] is
\* the kind's OPCODE and tx_buf and rx_buf have the same length; for
\* WriteBuffer and ReadBuffer also after any set_data_length calls.
C2_OpcodeFirstAndEqualLengths ==
    Alive =>
        /\ Len(cmd.tx_buf) >= 1
        /\ At(cmd.tx_buf, 0) = OPCODE(cmd.kind)
        /\ Len(cmd.tx_buf) = Len(cmd.rx_buf)

\* a ReadBuffer after set_data_length, and a SetDioIrqParams as constructed
C2_Witness ==
    \/ /\ cmd.kind = "ReadBuffer"
       /\ ret.op = "set_data_length"
       /\ cmd.data_length = 0
       /\ Capacity(cmd) = 5
    \/ cmd.kind = "SetDioIrqParams" /\ ret.op = "new"

\* ---------------------------------------------------------------- C3

\* the fixed opcode table: kind -> <<opcode, outbound length>>; for the two
\* variable-length kinds the second entry is the header length
OpcodeTable ==
    [k \in Kinds \ {"SetPaConfig"} |->
        CASE k = "ResetStats" -> <<0, 7>>
          [] k = "ClearIrqStatus" -> <<2, 3>>
          [] k = "SetStandby" -> <<128, 2>>
          [] k = "SetRx" -> <<130, 4>>
          [] k = "SetTx" -> <<131, 4>>
          [] k = "SetSleep" -> <<132, 2>>
          [] k = "SetRfFrequency" -> <<134, 5>>
          [] k = "SetPacketType" -> <<138, 2>>
          [] k = "SetModulationParamsLora" -> <<139, 5>>
          [] k = "SetPacketParams" -> <<140, 7>>
          [] k = "SetTxParams" -> <<142, 3>>
          [] k = "SetBufferBaseAddress" -> <<143, 3>>
          [] k = "WriteRegister" -> <<13, 4>>
          [] k = "WriteBuffer" -> <<14, 2>>
          [] k = "GetStatus" -> <<192, 2>>
          [] k = "GetPacketType" -> <<17, 3>>
          [] k = "GetIrqStatus" -> <<18, 4>>
          [] k = "GetRxBufferStatus" -> <<19, 4>>
          [] k = "GetPacketStatusLora" -> <<20, 5>>
          [] k = "GetDeviceErrors" -> <<23, 4>>
          [] k = "ReadRegister" -> <<29, 5>>
          [] k = "ReadBuffer" -> <<30, 3>>
          [] k = "ClearDeviceErrors" -> <<7, 3>>
          [] k = "SetDioIrqParams" -> <<8, 9>>
          [] k = "GetStatsLora" -> <<16, 8>>
          [] k = "SetLoraSymbNumTimeout" -> <<160, 2>>
          [] k = "SetDio2AsRfSwitchCtrl" -> <<157, 2>>
          [] k = "SetDio3AsTcxoCtrl" -> <<151, 5>>]

\* C3: every kind of the opcode table has the table's opcode in tx_buf[0]
\* and the table's outbound length; a fixed-size kind's transfer_size() is
\* that length; WriteBuffer / ReadBuffer are built with length 2 / 3 + data
\* length and their transfer_size() is 2 / 3 + data_length.
C3_OpcodeTable ==
    (Alive /\ cmd.kind \in DOMAIN OpcodeTable) =>
        /\ At(cmd.tx_buf, 0) = OpcodeTable[cmd.kind][1]
        /\ IsFixed =>
               /\ Len(cmd.tx_buf) = OpcodeTable[cmd.kind][2]
               /\ transfer_size(cmd, overflow_checks) =
                      Returned(OpcodeTable[cmd.kind][2])
               /\ ret.op = "transfer_size" =>
                      ret.res = Returned(OpcodeTable[cmd.kind][2])
        /\ (IsVariable /\ ret.op = "new") =>
               Len(cmd.tx_buf) = OpcodeTable[cmd.kind][2] + cmd.data_length
        /\ (IsVariable /\ cmd.data_length <= MaxDataLength(cmd)) =>
               transfer_size(cmd, overflow_checks) =
                   Returned(OpcodeTable[cmd.kind][2] + cmd.data_length)

\* GetStatsLora after transfer_size()
C3_Witness ==
    /\ cmd.kind = "GetStatsLora"
    /\ ret = Ret("transfer_size", Returned(8))

\* ---------------------------------------------------------------- C4

\* the step is a set_data_length call
IsSetDataLengthStep == \E d \in DataLengths : SetDataLength(d)

\* C4: set_data_length(d) changes only data_length: every byte of tx_buf
\* and of rx_buf and the capacity are as before, for every d and every
\* prior state.
C4_SetDataLengthFrame ==
    [][IsSetDataLengthStep =>
          /\ cmd'.tx_buf = cmd.tx_buf
          /\ cmd'.rx_buf = cmd.rx_buf
          /\ cmd'.kind = cmd.kind
          /\ Capacity(cmd') = Capacity(cmd)]_vars

\* a WriteBuffer holding payload bytes and received bytes, shrunk to 1
C4_Witness ==
    /\ cmd.kind = "WriteBuffer"
    /\ ret = Ret("set_data_length", Returned(1))
    /\ cmd.tx_buf = <<14, 16, 104, 101, 104>>
    /\ cmd.rx_buf = <<165, 0, 165, 0, 165>>

\* ---------------------------------------------------------------- C5

\* the constructors at the explored capacities N <= MaxN, against the
\* recorded arguments
SmallCapacityConstructors ==
    (IsVariable /\ ret.op = "new") =>
        LET N == ret.res.val[1]
            offset == ret.res.val[2]
        IN  /\ Capacity(cmd) = N
            /\ cmd.rx_buf = [i \in 1..N |-> 0]
            /\ transfer_size(cmd, overflow_checks) = Returned(N)
            /\ cmd.kind = "WriteBuffer" =>
                   /\ cmd.tx_buf = <<14, offset>> \o ret.res.val[3]
                   /\ cmd.data_length = N - 2
            /\ cmd.kind = "ReadBuffer" =>
                   /\ cmd.tx_buf = <<30, offset>> \o [i \in 1..(N - 2) |-> 0]
                   /\ cmd.data_length = N - 3

\* C5, as stated: for every capacity N >= 2, WriteBuffer::<N>::new(offset,
\* data) yields tx_buf = [0x0E, offset, data...], data_length = N - 2 and
\* transfer_size() = N; for every N >= 3, ReadBuffer::<N>::new(offset)
\* yields tx_buf = [0x1E, offset, 0, ..., 0], data_length = N - 3 and
\* transfer_size() = N; rx_buf is all zero in both.
C5_BufferConstructorsAnyCapacity ==
    /\ SmallCapacityConstructors
    /\ ret.op = "new_transfer_size" =>
           ret.res.ok /\ ret.res.val[3] = ret.res.val[2]

\* C5, amended: the above for every N <= 65535.  For N > 65535 the u16
\* data_length is computed from N mod 2^16: the constructor panics when
\* N mod 2^16 is below the header length and overflow checks are on, and
\* otherwise transfer_size() = N mod 2^16, not N.
C5_BufferConstructors ==
    /\ SmallCapacityConstructors
    /\ ret.op = "new_transfer_size" =>
           LET N == ret.res.val[2]
               header == IF ret.res.val[1] = "WriteBuffer" THEN 2 ELSE 3
               low == N % 65536
           IN  /\ N <= U16Max => (ret.res.ok /\ ret.res.val[3] = N)
               /\ (N > U16Max /\ low < header /\ overflow_checks) =>
                      ~ret.res.ok
               /\ (N > U16Max /\ (low >= header \/ ~overflow_checks)) =>
                      (ret.res.ok /\ ret.res.val[3] = low)

\* WriteBuffer::<5>::new(0x10, "heh")
C5_Witness ==
    /\ cmd.kind = "WriteBuffer"
    /\ ret = Ret("new", Returned(<<5, 16, <<104, 101, 104>> >>))
    /\ cmd.tx_buf = <<14, 16, 104, 101, 104>>

\* ---------------------------------------------------------------- C6

\* C6, as stated: for every u16 d passed to set_data_length, transfer_size()
\* afterwards returns exactly d + 2 (WriteBuffer) / d + 3 (ReadBuffer).
C6_TransferSizeExactAnyLength ==
    (IsVariable /\ ret.op = "transfer_size") =>
        ret.res = Returned(cmd.data_length + Header(cmd.kind))

\* C6, amended: for every d with d + header <= 65535, transfer_size()
\* returns exactly d + header; for a larger d the u16 addition overflows:
\* it panics when overflow checks are on and returns (d + header) mod 2^16
\* when they are off.  For every fixed-size command it returns N whatever
\* rx_buf holds.
C6_TransferSizeExact ==
    (Alive /\ ret.op = "transfer_size") =>
        LET sum == IF IsVariable THEN cmd.data_length + Header(cmd.kind) ELSE 0
        IN  /\ (IsVariable /\ sum <= U16Max) => ret.res = Returned(sum)
            /\ (IsVariable /\ sum > U16Max /\ overflow_checks) => ~ret.res.ok
            /\ (IsVariable /\ sum > U16Max /\ ~overflow_checks) =>
                   ret.res = Returned(sum - 65536)
            /\ IsFixed => ret.res = Returned(Capacity(cmd))

\* transfer_size() of a ReadBuffer set to the largest length that does not
\* overflow, with received bytes in rx_buf
C6_Witness ==
    /\ cmd.kind = "ReadBuffer"
    /\ cmd.data_length = 65532
    /\ cmd.rx_buf # Zeros(Capacity(cmd))
    /\ ret = Ret("transfer_size", Returned(65535))

\* ---------------------------------------------------------------- C7

\* C7: for a ReadBuffer with data_length <= N - 3, data() returns exactly
\* data_length bytes, equal in order to rx_buf[3 .. 3 + data_length - 1];
\* data() after shrinking is a prefix of data() before, and rx_buf[0..2]
\* are not part of it.
C7_ReadBufferData ==
    (cmd.kind = "ReadBuffer" /\ cmd.data_length <= MaxDataLength(cmd)) =>
        LET got == ReadBuffer_data(cmd)
        IN  /\ got.ok
            /\ Len(got.val) = cmd.data_length
            /\ \A i \in 0..(cmd.data_length - 1) :
                   At(got.val, i) = At(cmd.rx_buf, 3 + i)
            /\ \A d \in 0..cmd.data_length :
                   LET less == ReadBuffer_data(ReadBuffer_set_data_length(cmd, d))
                   IN  less.ok /\ less.val = SubSeq(got.val, 1, d)
            /\ ret.op = "data" => ret.res = got

\* data() of a shrunk ReadBuffer whose header bytes differ from its data
C7_Witness ==
    /\ cmd.kind = "ReadBuffer"
    /\ cmd.rx_buf = <<165, 165, 165, 0, 165>>
    /\ cmd.data_length = 1
    /\ ret = Ret("data", Returned(<<0>>))

\* ---------------------------------------------------------------- C8

\* C8, as stated: set_data_length(d) with d > N - 2 (WriteBuffer) or
\* d > N - 3 (ReadBuffer) never completes leaving data_length = d.
C8_OversizeLengthRejected ==
    ~ /\ IsVariable
      /\ ret.op = "set_data_length"
      /\ ret.res.ok
      /\ ret.res.val > MaxDataLength(cmd)
      /\ cmd.data_length = ret.res.val

\* C8, amended: set_data_length(d) checks nothing: for every u16 d, also
\* d > N - header, it completes and leaves data_length = d.  The misuse is
\* signalled only by a later call: ReadBuffer::data() panics exactly when
\* 3 + data_length > N, and transfer_size() panics exactly when
\* data_length + header > 65535 and overflow checks are on.
C8_OversizeLengthAccepted ==
    /\ (IsVariable /\ ret.op = "set_data_length") =>
           ret.res.ok /\ cmd.data_length = ret.res.val
    /\ (cmd.kind = "ReadBuffer" /\ ret.op = "data") =>
           (ret.res.ok <=> 3 + cmd.data_length <= Capacity(cmd))
    /\ (IsVariable /\ ret.op = "transfer_size") =>
           (ret.res.ok <=>
               ~(overflow_checks /\ cmd.data_length + Header(cmd.kind) > U16Max))

\* set_data_length(N - 2) on a ReadBuffer<N>: one more than its capacity
C8_Witness ==
    /\ cmd.kind = "ReadBuffer"
    /\ ret.op = "set_data_length"
    /\ ret.res.val = Capacity(cmd) - 2
    /\ cmd.data_length = Capacity(cmd) - 2

\* ---------------------------------------------------------------- C9

BfBuilt == bf.type # "None"

\* C9: for every combination of field values set through the with_*
\* builders, each named field read from from_bits(into_bits(value)) is the
\* value given for it, and every reserved bit of into_bits(value) is zero.
C9_BitfieldRoundTrip ==
    BfBuilt =>
        LET raw == Bitfield_into_bits(bf.type, bf.bits)
            back == Bitfield_from_bits(bf.type, raw)
        IN  /\ \A name \in FieldNames(bf.type) :
                   Bitfield_get(bf.type, back, name) = bf.given[name]
            /\ \A b \in ReservedBits(bf.type) : Bit(raw, b) = 0
            /\ ret.op = "get" => ret.res.val[2] = bf.given[ret.res.val[1]]

\* an Irq with two fields set and one set and cleared again, decoded from
\* its own encoding
C9_Witness ==
    /\ bf.type = "Irq"
    /\ ret = Ret("from_bits", Returned(16385))
    /\ bf.given["tx_done"] /\ bf.given["lr_fhss_hop"] /\ ~bf.given["timeout"]

\* ---------------------------------------------------------------- C10

\* the bit each named field is stated to occupy
StatedBit(type, name) ==
    CASE type = "SleepConfig" /\ name = "warm_start" -> 2
      [] type = "Irq" /\ name = "tx_done" -> 0
      [] type = "Irq" /\ name = "rx_done" -> 1
      [] type = "Irq" /\ name = "preamble_detected" -> 2
      [] type = "Irq" /\ name = "sync_word_valid" -> 3
      [] type = "Irq" /\ name = "header_valid" -> 4
      [] type = "Irq" /\ name = "header_err" -> 5
      [] type = "Irq" /\ name = "crc_err" -> 6
      [] type = "Irq" /\ name = "cad_done" -> 7
      [] type = "Irq" /\ name = "cad_detected" -> 8
      [] type = "Irq" /\ name = "timeout" -> 9
      [] type = "Irq" /\ name = "lr_fhss_hop" -> 14
      [] type = "OpError" /\ name = "rc64k_calib_err" -> 0
      [] type = "OpError" /\ name = "rc13m_calib_err" -> 1
      [] type = "OpError" /\ name = "pll_calib_err" -> 2
      [] type = "OpError" /\ name = "adc_calib_err" -> 3
      [] type = "OpError" /\ name = "img_calib_err" -> 4
      [] type = "OpError" /\ name = "xosc_start_err" -> 5
      [] type = "OpError" /\ name = "pll_lock_err" -> 6
      [] type = "OpError" /\ name = "pa_ramp_err" -> 8

RECURSIVE StatedBits(_, _)
\* the integer with exactly the stated bits of the fields in `names` set
StatedBits(type, names) ==
    IF names = {} THEN 0
    ELSE LET n == CHOOSE x \in names : TRUE
         IN  Pow2(StatedBit(type, n)) + StatedBits(type, names \ {n})

\* C10: each named field occupies exactly its stated bit (SleepConfig
\* MSB-first with warm_start = bit 2; Irq and OpError LSB-first), so the
\* encoding is the sum of the stated bits of the fields set to true, one
\* field alone sets exactly one bit, and SetSleep with warm start is
\* [0x84, 0x04].
C10_BitPositions ==
    BfBuilt =>
        /\ Bitfield_into_bits(bf.type, bf.bits) =
               StatedBits(bf.type, {n \in FieldNames(bf.type) : bf.given[n]})
        /\ (cmd.kind = "SetSleep" /\ ret.op = "new" /\ bf.given["warm_start"]) =>
               cmd.tx_buf = <<132, 4>>
        /\ (cmd.kind = "SetSleep" /\ ret.op = "new" /\ ~bf.given["warm_start"]) =>
               cmd.tx_buf = <<132, 0>>

\* SetSleep built from SleepConfig::new().with_warm_start(true)
C10_Witness ==
    /\ bf.type = "SleepConfig"
    /\ bf.given["warm_start"]
    /\ ret = Ret("new", Returned(<<4>>))
    /\ cmd.tx_buf = <<132, 4>>

\* ---------------------------------------------------------------- C11

\* x with every reserved bit cleared
NamedPart(type, x) ==
    StatedBits(type, {n \in FieldNames(type) : Bitfield_get(type, x, n)})

\* the response c with the reserved bits of rx_buf[2..3] cleared
WithoutReserved(c, type) ==
    LET named == NamedPart(type, BeU16(At(c.rx_buf, 2), At(c.rx_buf, 3)))
    IN  [c EXCEPT !.rx_buf[3] = Shr(named, 8), !.rx_buf[4] = AsU8(named)]

\* C11, as stated: two responses that differ only in reserved bits (Irq bits
\* 10-13 and 15, OpError bits 7 and 9-15) decode to equal values, so what
\* irq_status() / op_error() returned equals the decoding of the response
\* with its reserved bits cleared; and a decoded Irq re-encoded through
\* ClearIrqStatus or SetDioIrqParams has zero in every reserved bit.
C11_ReservedBitsIgnored ==
    /\ (cmd.kind = "GetIrqStatus" /\ ret.op = "irq_status") =>
           Bitfield_eq("Irq", ret.res.val,
                       GetIrqStatus_irq_status(WithoutReserved(cmd, "Irq")))
    /\ (cmd.kind = "GetDeviceErrors" /\ ret.op = "op_error") =>
           Bitfield_eq("OpError", ret.res.val,
                       GetDeviceErrors_op_error(WithoutReserved(cmd, "OpError")))
    /\ (cmd.kind = "ClearIrqStatus" /\ ret.op = "new") =>
           \A b \in ReservedBits("Irq") :
               Bit(BeU16(At(cmd.tx_buf, 1), At(cmd.tx_buf, 2)), b) = 0
    /\ (cmd.kind = "SetDioIrqParams" /\ ret.op = "new") =>
           \A k \in 0..3, b \in ReservedBits("Irq") :
               Bit(BeU16(At(cmd.tx_buf, 1 + 2 * k), At(cmd.tx_buf, 2 + 2 * k)),
                   b) = 0

\* ---------------------------------------------------------------- C12

\* C12: for both register types and every byte v, from_bits(bits(R(v))) is
\* R(v); and a ReadRegister<R> whose rx_buf[4] holds the value byte tx_buf[3]
\* of WriteRegister::new(R(v)) returns R(v) from register(), whatever
\* rx_buf[0..3] hold.
C12_RegisterRoundTrip ==
    bf.type \in RegisterTypes =>
        LET sent == At(WriteRegister_new(bf.type, bf.bits).tx_buf, 3)
        IN  /\ Register_from_bits(bf.type, Register_bits(bf.type, bf.bits))
                   = bf.bits
            /\ (cmd.kind = "WriteRegister" /\ ret.op = "new") =>
                   At(cmd.tx_buf, 3) = sent
            /\ (cmd.kind = "ReadRegister" /\ cmd.register = bf.type
                    /\ At(cmd.rx_buf, 4) = sent) =>
                   /\ \A q \in 0..3, b \in RawBytes :
                          ReadRegister_register([cmd EXCEPT !.rx_buf[q + 1] = b])
                              = bf.bits
                   /\ ret.op = "register" => ret.res = Returned(bf.bits)

\* LoraSyncWordLsb(0x86) written, read back behind non-zero bytes, decoded
C12_Witness ==
    /\ bf.type = "LoraSyncWordLsb"
    /\ bf.bits = 134
    /\ cmd.kind = "ReadRegister"
    /\ cmd.rx_buf = <<165, 165, 165, 165, 134>>
    /\ ret = Ret("register", Returned(134))

\* ---------------------------------------------------------------- C13

\* C13: for every register type R and value v, WriteRegister::new(R(v)) has
\* tx_buf = [0x0D, ADDRESS >> 8, ADDRESS & 0xFF, v] and
\* ReadRegister::<R>::new() has tx_buf = [0x1D, ADDRESS >> 8, ADDRESS & 0xFF,
\* 0, 0]; the two register types have the addresses 0x0740 and 0x0741.
C13_RegisterAddressBigEndian ==
    /\ Register_ADDRESS("LoraSyncWordMsb") = 7 * 256 + 64
    /\ Register_ADDRESS("LoraSyncWordLsb") = 7 * 256 + 65
    /\ (cmd.kind = "WriteRegister" /\ ret.op = "new") =>
           LET address == Register_ADDRESS(ret.res.val[1])
           IN  cmd.tx_buf = <<13, address \div 256, address % 256,
                              ret.res.val[2]>>
    /\ cmd.kind = "ReadRegister" =>
           LET address == Register_ADDRESS(cmd.register)
           IN  cmd.tx_buf = <<29, address \div 256, address % 256, 0, 0>>

\* WriteRegister::new(LoraSyncWordMsb(0x48))
C13_Witness ==
    /\ cmd.kind = "WriteRegister"
    /\ ret = Ret("new", Returned(<<"LoraSyncWordMsb", 72>>))
    /\ cmd.tx_buf = <<13, 7, 64, 72>>

\* ---------------------------------------------------------------- C14

\* C14: for every raw byte r, rssi_pkt() with rx_buf[2] = r and
\* signal_rssi_pkt() with rx_buf[4] = r return -(r div 2), a value in
\* -127..0, and never overflow (184 gives -92, 162 gives -81).
C14_RssiHalvedNegated ==
    cmd.kind = "GetPacketStatusLora" =>
        /\ ret.op = "rssi_pkt" =>
               /\ ret.res = Returned(0 - (At(cmd.rx_buf, 2) \div 2))
               /\ ret.res.val \in -127..0
        /\ ret.op = "signal_rssi_pkt" =>
               /\ ret.res = Returned(0 - (At(cmd.rx_buf, 4) \div 2))
               /\ ret.res.val \in -127..0

\* rssi_pkt() of a response with rx_buf[2] = 184
C14_Witness ==
    /\ cmd.kind = "GetPacketStatusLora"
    /\ At(cmd.rx_buf, 2) = 184
    /\ ret = Ret("rssi_pkt", Returned(0 - 92))

\* ---------------------------------------------------------------- C15

\* C15: for every raw byte r, snr_pkt() with rx_buf[3] = r returns the
\* two's-complement value s of r divided by 4 with truncation toward zero:
\* the q in -32..31 with s = 4 * q + rem, |rem| < 4 and rem zero or of the
\* sign of s (0xFC gives -1, 0xFF gives 0, 0x80 gives -32, 0x7F gives 31).
C15_SnrTruncatedQuotient ==
    (cmd.kind = "GetPacketStatusLora" /\ ret.op = "snr_pkt") =>
        LET r == At(cmd.rx_buf, 3)
            s == IF r >= 128 THEN r - 256 ELSE r
            q == ret.res.val
        IN  /\ ret.res.ok
            /\ q \in -32..31
            /\ \E rem \in -3..3 :
                   /\ s = 4 * q + rem
                   /\ rem # 0 => ((rem > 0) <=> (s > 0))
            /\ r = 252 => q = 0 - 1
            /\ r = 255 => q = 0
            /\ r = 128 => q = 0 - 32
            /\ r = 127 => q = 31

\* snr_pkt() of a response with rx_buf[3] = 0xFF: -1 / 4 is 0
C15_Witness ==
    /\ cmd.kind = "GetPacketStatusLora"
    /\ At(cmd.rx_buf, 3) = 255
    /\ ret = Ret("snr_pkt", Returned(0))

\* ---------------------------------------------------------------- C16

\* C16, as stated: command_status() returns the enumerant whose code is the
\* three-bit field at bit 1 of rx_buf[1], (rx_buf[1] >> 1) & 0x07, so that
\* each of the codes 0..7 is returned for some status byte; chip_mode()
\* returns the enumerant with code (rx_buf[1] >> 4) & 0x07.
C16_StatusFieldsFullWidth ==
    cmd.kind = "GetStatus" =>
        /\ ret.op = "command_status" =>
               ret.res = Returned((At(cmd.rx_buf, 1) \div 2) % 8)
        /\ ret.op = "chip_mode" =>
               ret.res = Returned((At(cmd.rx_buf, 1) \div 16) % 8)

\* ---------------------------------------------------------------- C17

\* the mask width each decoder is stated to use
StatedWidth(enum) ==
    CASE enum = "PacketType" -> 2
      [] enum = "RampTime" -> 3
      [] enum = "Sf" -> 4
      [] enum = "Bw" -> 4
      [] enum = "Cr" -> 3
      [] enum = "HeaderType" -> 1
      [] enum = "InvertIq" -> 1

\* the declared enumerants (codes) of an enumeration
Declared(enum) ==
    CASE enum = "PacketType" -> PacketType
      [] enum = "RampTime" -> RampTime
      [] enum = "Sf" -> Sf
      [] enum = "Bw" -> Bw
      [] enum = "Cr" -> Cr
      [] enum = "HeaderType" -> HeaderType
      [] enum = "InvertIq" -> InvertIq

\* C17, as stated: for every raw byte b, each of the seven decoders returns
\* a declared enumerant whose code is b masked to the decoder's width; no
\* masked value lacks a declared enumerant.
C17_EnumDecodingTotal ==
    ret.op = "from" =>
        LET enum == ret.res.val[1]
            b == ret.res.val[2]
            e == ret.res.val[3]
        IN  /\ ret.res.ok
            /\ b % Pow2(StatedWidth(enum)) \in Declared(enum)
            /\ e \in Declared(enum)
            /\ e = b % Pow2(StatedWidth(enum))

\* ---------------------------------------------------------------- C18

\* the command c with byte b in rx_buf[0]
WithStatusByte(c, b) == [c EXCEPT !.rx_buf[1] = b]

\* C18: no decoding accessor depends on rx_buf[0]: what an accessor returned
\* for a command is, for every byte b, a result the accessor has for the
\* command with rx_buf[0] replaced by b and everything else the same.
C18_AccessorsIgnoreFirstByte ==
    (cmd.kind \in ResponseKinds /\ ret.op \in Accessors(cmd.kind)) =>
        \A b \in RawBytes :
            ret.res \in Accessor(WithStatusByte(cmd, b), ret.op, overflow_checks)

\* payload_length_rx() of a response whose rx_buf[0] is not zero
C18_Witness ==
    /\ cmd.kind = "GetRxBufferStatus"
    /\ cmd.rx_buf = <<165, 165, 16, 165>>
    /\ ret = Ret("payload_length_rx", Returned(16))

\* ---------------------------------------------------------------- C19

\* the bytes 2, 1 and 0 of a u32, most significant first
Low24BigEndian(t) == <<t.hi % 256, t.lo \div 256, t.lo % 256>>

\* t mod 2^24
Mod2Pow24(t) == U32(t.hi % 256, t.lo)

\* C19: for every 32-bit timeout t, SetTx::new(t).tx_buf is 0x83 followed by
\* the low 24 bits of t, most significant byte first, and SetRx::new(t) the
\* same after 0x82, so that t and t mod 2^24 give identical bytes;
\* SetDio3AsTcxoCtrl::new does the same for its delay after the voltage
\* byte; no input makes one of these constructors fail.
C19_TimeoutLow24Bits ==
    (cmd.kind \in {"SetTx", "SetRx", "SetDio3AsTcxoCtrl"} /\ ret.op = "new") =>
        /\ ret.res.ok
        /\ cmd.kind = "SetTx" =>
               /\ cmd.tx_buf = <<131>> \o Low24BigEndian(ret.res.val[1])
               /\ SetTx_new(Mod2Pow24(ret.res.val[1])).tx_buf = cmd.tx_buf
        /\ cmd.kind = "SetRx" =>
               /\ cmd.tx_buf = <<130>> \o Low24BigEndian(ret.res.val[1])
               /\ SetRx_new(Mod2Pow24(ret.res.val[1])).tx_buf = cmd.tx_buf
        /\ cmd.kind = "SetDio3AsTcxoCtrl" =>
               /\ cmd.tx_buf = <<151, ret.res.val[1]>>
                                   \o Low24BigEndian(ret.res.val[2])
               /\ SetDio3AsTcxoCtrl_new(ret.res.val[1],
                                        Mod2Pow24(ret.res.val[2])).tx_buf
                      = cmd.tx_buf

\* SetTx::new(0x0168B849): bits 24-31 are dropped, the bytes are those of
\* 6862921
C19_Witness ==
    /\ cmd.kind = "SetTx"
    /\ ret = Ret("new", Returned(<<U32(360, 47177)>>))
    /\ cmd.tx_buf = <<131, 104, 184, 73>>

\* ---------------------------------------------------------------- C20

\* the byte pair of a 16-bit value, high byte first
HighFirst(x) == <<x \div 256, x % 256>>

\* C20: for every Irq x built with the with_* builders,
\* ClearIrqStatus::new(x).tx_buf[1..2] is [x >> 8, x & 0xFF];
\* SetDioIrqParams::new emits the pair of each of its four masks at the
\* positions (1,2), (3,4), (5,6), (7,8), in the order irq, dio1, dio2, dio3;
\* and the pair copied into GetIrqStatus.rx_buf[2..3] makes irq_status()
\* equal to x.
C20_IrqHighByteFirst ==
    (BfBuilt /\ bf.type = "Irq") =>
        /\ (cmd.kind = "ClearIrqStatus" /\ ret.op = "new") =>
               SubSeq(cmd.tx_buf, 2, 3) = HighFirst(bf.bits)
        /\ (cmd.kind = "SetDioIrqParams" /\ ret.op = "new") =>
               /\ \E k \in 1..4 : ret.res.val[k] = bf.bits
               /\ \A k \in 1..4 :
                      SubSeq(cmd.tx_buf, 2 * k, 2 * k + 1)
                          = HighFirst(ret.res.val[k])
        /\ (cmd.kind = "GetIrqStatus" /\ ret.op = "echo") =>
               SubSeq(cmd.rx_buf, 3, 4) = HighFirst(bf.bits)
        /\ (cmd.kind = "GetIrqStatus" /\ ret.op = "irq_status") =>
               /\ ret.res.ok
               /\ Bitfield_eq("Irq", ret.res.val, bf.bits)

\* Irq::new().with_header_valid(true).with_timeout(true) sent by
\* ClearIrqStatus as [2, 16], read back and decoded
C20_Witness ==
    /\ bf.type = "Irq"
    /\ bf.given["header_valid"] /\ bf.given["timeout"]
    /\ cmd.kind = "GetIrqStatus"
    /\ cmd.rx_buf = <<165, 165, 2, 16>>
    /\ ret = Ret("irq_status", Returned(528))

\* --------------------------------------------------------------- C21

\* set_data_length(d) on a command of either variable-length kind
SetTo(c, d) ==
    IF c.kind = "WriteBuffer" THEN WriteBuffer_set_data_length(c, d)
    ELSE ReadBuffer_set_data_length(c, d)

\* the command with the length its constructor gave it, N - header
Unshrunk(c) == [c EXCEPT !.data_length = MaxDataLength(c)]

\* What a set_data_length(d) step leaves behind depends on d alone: the
\* command is the unshrunk one with length d, a second call with d changes
\* nothing, any later call forgets d, and restoring N - header gives the
\* unshrunk command: the same transfer_size(), tx_buf and data().
LastValueOnly ==
    LET d == ret'.res.val
        restored == SetTo(cmd', MaxDataLength(cmd'))
    IN  /\ cmd' = [Unshrunk(cmd) EXCEPT !.data_length = d]
        /\ SetTo(cmd', d) = cmd'
        /\ \A e \in DataLengths : SetTo(cmd', e) = SetTo(cmd, e)
        /\ restored = Unshrunk(cmd)
        /\ restored.tx_buf = cmd.tx_buf
        /\ transfer_size(restored, overflow_checks) = Returned(Capacity(cmd))
        /\ cmd.kind = "ReadBuffer" =>
               ReadBuffer_data(restored) =
                   Returned(SubSeq(cmd.rx_buf, 4, Capacity(cmd)))

\* C21, as stated: after any sequence of set_data_length calls on a
\* WriteBuffer or ReadBuffer the observable state depends only on the last
\* value d: transfer_size() = header + d, a second call with d changes
\* nothing, and restoring N - header gives the transfer_size(), tx_buf and
\* data() of the unshrunk command.
C21_LastValueDecidesAnyLength ==
    [][IsSetDataLengthStep =>
          /\ LastValueOnly
          /\ transfer_size(cmd', overflow_checks) =
                 Returned(Header(cmd.kind) + ret'.res.val)]_vars

\* C21, amended: the state after a set_data_length(d) call depends only
\* on d, a second call with d changes nothing, and restoring N - header
\* gives the transfer_size(), tx_buf and data() of the unshrunk command;
\* transfer_size() = header + d when header + d <= 65535, and for a larger
\* d it panics (overflow checks on) or is (header + d) mod 2^16 (off).
C21_LastValueDecides ==
    [][IsSetDataLengthStep =>
          LET sum == Header(cmd.kind) + ret'.res.val
              size == transfer_size(cmd', overflow_checks)
          IN  /\ LastValueOnly
              /\ sum <= U16Max => size = Returned(sum)
              /\ (sum > U16Max /\ overflow_checks) => ~size.ok
              /\ (sum > U16Max /\ ~overflow_checks) =>
                     size = Returned(sum - 65536)]_vars

\* a ReadBuffer<5> holding received bytes, shrunk earlier, restored to
\* its full length 2
C21_Witness ==
    /\ cmd.kind = "ReadBuffer"
    /\ Capacity(cmd) = 5
    /\ cmd.rx_buf = <<0, 0, 0, 165, 165>>
    /\ ret = Ret("set_data_length", Returned(2))
    /\ cmd.data_length = 2

\* --------------------------------------------------------------- C22

\* the bytes the claim states for a static, from its initializer alone
StatedBytes(init) ==
    CASE init[1] = "SetSleep" -> <<132, init[2]>>
      [] init[1] = "SetStandby" -> <<128, init[2]>>
      [] init[1] = "WriteBuffer" -> <<14, init[2]>> \o init[3]

\* the transfer size the claim states for a static
StatedSize(s) ==
    IF s.new[1] = "WriteBuffer" THEN 2 + s.value.data_length ELSE 2

\* the descriptor agrees with the value c of the command it refers to: its
\* transfer_length is c.transfer_size() and the bytes it sends are the
\* stated ones
Agrees(desc, c) ==
    LET s == [new |-> statics[desc.tx_buf_ptr].new, value |-> c]
        sent == SubSeq(c.tx_buf, 1, desc.transfer_length)
    IN  /\ Returned(desc.transfer_length) = transfer_size(c, overflow_checks)
        /\ desc.transfer_length = StatedSize(s)
        /\ sent = SubSeq(StatedBytes(s.new), 1, StatedSize(s))
        /\ s.new = <<"SetSleep", 4>> => sent = <<132, 4>>
        /\ s.new = <<"SetStandby", 0>> => sent = <<128, 0>>
        /\ (/\ s.new = <<"WriteBuffer", 0, <<2, 4, 7, 9, 3>> >>
            /\ c.data_length = Len(s.new[3])) =>
               sent = <<14, 0, 2, 4, 7, 9, 3>>

\* the descriptors made so far, in the order they were enqueued
Described == [k \in 1..Len(enqueued) |-> enqueued[k].desc]

====
